---- MODULE Spec2Model ----
(***************************************************************************)
(* Verification model of search.js: the tag query engine (searchFiles),   *)
(* the 3D model viewer (openModelViewer, closeModelViewer,                 *)
(* initThreeJsViewer and the GLTFLoader callbacks), the loading of the     *)
(* corpus and the text bodies (loadData, loadTextContents) and the         *)
(* rendering of results (the input listener, displayResults,               *)
(* getFilePreview, escapeHtml).                                            *)
(*                                                                         *)
(* A JavaScript string that the code inspects character by character (a   *)
(* query, a tag text, a text body) is a sequence of one-character         *)
(* strings.  A string the code only copies or compares as a whole (a       *)
(* path, a type, a color, a confidence, a display value) is a TLA+ string. *)
(***************************************************************************)
EXTENDS Integers, Sequences, FiniteSets, TLC

\* ------------------------------------------------------------------------
\* Bounds of the model
\* ------------------------------------------------------------------------
\* The longest enumerated query, the most records of an enumerated corpus and
\* the most tags all records of an enumerated corpus carry together.
MaxQueryLen == 3
MaxFiles == 2
MaxCorpusTags == 2

\* ------------------------------------------------------------------------
\* JavaScript string primitives used by searchFiles
\* ------------------------------------------------------------------------

\* The characters matched by the regular expression class \s that occur in
\* the model's strings.
WhiteSpace == {" ", "\t", "\n"}

UpperCase == <<"A", "B", "C", "D", "E", "F", "G", "H", "I", "J", "K", "L", "M",
               "N", "O", "P", "Q", "R", "S", "T", "U", "V", "W", "X", "Y", "Z">>

LowerCase == <<"a", "b", "c", "d", "e", "f", "g", "h", "i", "j", "k", "l", "m",
               "n", "o", "p", "q", "r", "s", "t", "u", "v", "w", "x", "y", "z">>

\* The upper-case letters as a set.
UpperLetters == { UpperCase[k] : k \in 1..Len(UpperCase) }

\* String.prototype.toLowerCase on one character.
LowerChar(c) ==
    IF c \in UpperLetters
    THEN LowerCase[CHOOSE i \in 1..Len(UpperCase) : UpperCase[i] = c]
    ELSE c

\* The string as it is.
sameCase(s) == s

\* String.prototype.toLowerCase
toLowerCase(s) == [i \in 1..Len(s) |-> LowerChar(s[i])]

\* String.prototype.includes: needle occurs in hay as a contiguous substring.
includes(hay, needle) ==
    \E i \in 0..(Len(hay) - Len(needle)) :
        \A j \in 1..Len(needle) : hay[i + j] = needle[j]

\* Index of the first character at or after position i that is not whitespace
\* (Len(s) + 1 when there is none).
RECURSIVE SkipSpace(_, _)
SkipSpace(s, i) ==
    IF i > Len(s) THEN i
    ELSE IF s[i] \in WhiteSpace THEN SkipSpace(s, i + 1)
    ELSE i

\* String.prototype.split(/\s+/) from position i on, cur being the token
\* collected so far: every maximal run of whitespace ends a token, and the
\* text after the last run (possibly empty) is the last token.
RECURSIVE SplitFrom(_, _, _)
SplitFrom(s, i, cur) ==
    IF i > Len(s) THEN <<cur>>
    ELSE IF s[i] \in WhiteSpace
         THEN <<cur>> \o SplitFrom(s, SkipSpace(s, i), <<>>)
         ELSE SplitFrom(s, i + 1, Append(cur, s[i]))

\* The whole string as the only term.
wholeQuery(s) == <<s>>

\* query.split(/\s+/)
split(s) == SplitFrom(s, 1, <<>>)

\* join('') in place of join(' '): the texts follow each other directly.
RECURSIVE joinNoSeparator(_)
joinNoSeparator(strs) ==
    IF Len(strs) = 0 THEN <<>>
    ELSE strs[1] \o joinNoSeparator(Tail(strs))

\* Array.prototype.join(' ') over a sequence of strings.
RECURSIVE join(_)
join(strs) ==
    IF Len(strs) = 0 THEN <<>>
    ELSE IF Len(strs) = 1 THEN strs[1]
    ELSE strs[1] \o <<" ">> \o join(Tail(strs))

\* String.prototype.trim
RECURSIVE TrimEnd(_)
TrimEnd(s) ==
    IF Len(s) > 0 /\ s[Len(s)] \in WhiteSpace
    THEN TrimEnd(SubSeq(s, 1, Len(s) - 1))
    ELSE s

trim(s) == TrimEnd(SubSeq(s, SkipSpace(s, 1), Len(s)))

\* ------------------------------------------------------------------------
\* The tag corpus (data/tags.json)
\* ------------------------------------------------------------------------

\* fileData is null before the corpus document is parsed: an optional value
\* is the empty sequence (null) or a one-element sequence.
Null == <<>>

Some(v) == <<v>>

\* All sequences over S of length at most n.
SeqUpTo(S, n) == UNION {[1..k -> S] : k \in 0..n}

\* The keys of fileData.files in iteration order, each with its type.
Paths == <<"a.txt", "b.png", "c.glb">>

TypeOf(path) ==
    CASE path \in {"a.txt", "d.txt", "e.txt"} -> "text"
      [] path = "b.png" -> "image"
      [] OTHER -> "3d"

ColorOf(path) == IF path = "b.png" THEN "blue" ELSE "none"

\* Tag texts of the enumerated corpora: one letter, two letters, an upper-case
\* letter, and a text holding a space.
TagTexts ==
    { <<"a">>, <<"b">>, <<"a", "b">>, <<"A">>, <<"a", " ", "b">> }

TagEntry(text) == [tag |-> text, confidence |-> "100%"]

\* The tag texts of a record, in tag order.
TagTextsOf(file) == [i \in 1..Len(file.tags) |-> file.tags[i].tag]

FileRecord(path, texts) ==
    [type |-> TypeOf(path),
     tags |-> [i \in 1..Len(texts) |-> TagEntry(texts[i])],
     color |-> ColorOf(path)]

\* Object.entries(fileData.files) of a corpus whose records carry the given
\* tag texts: a sequence of <<path, file>> pairs with distinct paths.
Entries(tagLists) ==
    [i \in 1..Len(tagLists) |-> <<Paths[i], FileRecord(Paths[i], tagLists[i])>>]

\* The corpus of the concrete scenario: a.txt tagged "cat", b.png tagged
\* "dog" with color "blue".
ScenarioCorpus ==
    [files |->
        << <<"a.txt", [type |-> "text",
                       tags |-> <<[tag |-> <<"c", "a", "t">>, confidence |-> "100%"]>>,
                       color |-> "none"]>>,
           <<"b.png", [type |-> "image",
                       tags |-> <<[tag |-> <<"d", "o", "g">>, confidence |-> "90%"]>>,
                       color |-> "blue"]>> >>]

\* A record tagged "new" and "york".
NewYorkCorpus ==
    [files |-> Entries(<< << <<"n", "e", "w">>, <<"y", "o", "r", "k">> >> >>)]

\* The tag texts of n records that carry at most k tags together.
RECURSIVE TagLists(_, _)
TagLists(n, k) ==
    IF n = 0 THEN {<<>>}
    ELSE UNION { { <<first>> \o rest : rest \in TagLists(n - 1, k - Len(first)) } :
                 first \in SeqUpTo(TagTexts, k) }

Corpora ==
    { [files |-> Entries(tl)] :
        tl \in UNION { TagLists(n, MaxCorpusTags) : n \in 0..MaxFiles } }
    \cup {ScenarioCorpus, NewYorkCorpus}

\* The characters of the enumerated queries.
QueryAlphabet == {"a", "b", "A", " "}

ScenarioQueries ==
    { <<"c", "a", "t">>,
      <<"d", "o", "g", " ", "b", "l", "u", "e">>,
      <<"c", "a", "t", " ", "d", "o", "g">>,
      <<"d", "o", "g">>,
      <<"n", "e", "w", " ", "y", "o", "r", "k">>,
      <<" ", "\t">> }

Queries == SeqUpTo(QueryAlphabet, MaxQueryLen) \cup ScenarioQueries

\* ------------------------------------------------------------------------
\* searchFiles
\* ------------------------------------------------------------------------

\* A callback that compares the tag texts as they are written.
TagMatchesAsWritten(file, tagObj, term) ==
    \/ includes(tagObj.tag, term)
    \/ includes(join([i \in 1..Len(file.tags) |-> file.tags[i].tag]), term)

\* The callback of file.tags.some: the tag contains the term, or the record's
\* lower-cased tag texts joined by spaces contain it.
TagMatches(file, tagObj, term) ==
    \/ includes(toLowerCase(tagObj.tag), term)
    \/ includes(join([i \in 1..Len(file.tags) |-> toLowerCase(file.tags[i].tag)]), term)

\* The callback of searchTerms.every: file.tags.some(...)
TermMatches(file, term) ==
    \E i \in 1..Len(file.tags) : TagMatches(file, file.tags[i], term)

\* searchTerms.some in place of searchTerms.every.
hasAnyTerm(file, searchTerms) ==
    \E k \in 1..Len(searchTerms) : TermMatches(file, searchTerms[k])

hasAllTerms(file, searchTerms) ==
    \A k \in 1..Len(searchTerms) : TermMatches(file, searchTerms[k])

\* results.push({path, ...file})
Result(entry) ==
    [path |-> entry[1], type |-> entry[2].type, tags |-> entry[2].tags,
     color |-> entry[2].color]

\* A loop that puts every match in front of the matches found before it.
RECURSIVE CollectNewestFirst(_, _)
CollectNewestFirst(entries, searchTerms) ==
    IF Len(entries) = 0 THEN <<>>
    ELSE CollectNewestFirst(Tail(entries), searchTerms)
         \o (IF hasAllTerms(entries[1][2], searchTerms)
             THEN <<Result(entries[1])>>
             ELSE <<>>)

\* The for loop over Object.entries(fileData.files).
RECURSIVE Collect(_, _)
Collect(entries, searchTerms) ==
    IF Len(entries) = 0 THEN <<>>
    ELSE (IF hasAllTerms(entries[1][2], searchTerms)
          THEN <<Result(entries[1])>>
          ELSE <<>>)
         \o Collect(Tail(entries), searchTerms)

\* searchFiles without the !query test of its first line.
searchFilesNoQueryGuard(data, q) ==
    IF data = Null THEN <<>>
    ELSE Collect(data[1].files, split(toLowerCase(q)))

searchFiles(data, q) ==
    IF data = Null \/ q = <<>> THEN <<>>
    ELSE Collect(data[1].files, split(toLowerCase(q)))

\* ------------------------------------------------------------------------
\* State
\* ------------------------------------------------------------------------
VARIABLES
    fileData,         \* let fileData: Null, or Some(the parsed corpus document)
    query,            \* the argument of the latest searchFiles call
    results,          \* the value the latest searchFiles call returned
    currentModel,     \* let currentModel: Null, or Some(s), the gltf.scene of session s
    modal,            \* the #model-viewer-modal element
    container,        \* the child elements of #model-container
    sessions,         \* one record per initThreeJsViewer call (its closure)
    frameTokens,      \* sessions with a requestAnimationFrame(animate) callback pending
    resizeListeners,  \* sessions whose 'resize' listener is registered on window
    searchInput,      \* the value of the #searchInput element
    resultsContainer, \* the #results element: style.display and its result cards
    fileContents,     \* let fileContents: the bodies of text records, by path
    loading,          \* where loadData() is suspended, or that it has returned
    fetchLog,         \* the URLs fetch() was called with, in call order
    lastOp            \* the function or callback that ran last

searchVars == <<fileData, query, results>>

viewerVars ==
    <<currentModel, modal, container, sessions, frameTokens, resizeListeners>>

pageVars == <<searchInput, resultsContainer>>

loadVars == <<fileContents, loading, fetchLog>>

vars == <<searchVars, viewerVars, pageVars, loadVars, lastOp>>

\* The function or callback that ran last, the session it belongs to (0 when
\* it belongs to none) and whether it ended by throwing.
Op(name, sid, threw) == [op |-> name, sid |-> sid, threw |-> threw]

\* ------------------------------------------------------------------------
\* The 3D model viewer
\* ------------------------------------------------------------------------
MaxSessions == 2
MaxBytes == 2

\* data-path values of the "View 3D Model" buttons.
ModelPaths == {"c.glb", "d.glb"}

\* The elements a session appends to #model-container.
Canvas(s) == [el |-> "canvas", sid |-> s]

LoadingText(s) == [el |-> "loadingText", sid |-> s]

\* container.clientWidth / container.clientHeight: the layout box of the
\* container in a visible modal, and no box inside a modal with display 'none'.
ClientSize(m) == IF m.exists /\ m.display = "block" THEN "900x600" ELSE "0x0"

\* Math.round((xhr.loaded / xhr.total) * 100): 0 / 0 is NaN, n / 0 is Infinity,
\* and Math.round rounds a half up.
Percent(loaded, total) ==
    IF total = 0
    THEN [kind |-> IF loaded = 0 THEN "NaN" ELSE "Infinity", n |-> 0]
    ELSE [kind |-> "number", n |-> (200 * loaded + total) \div (2 * total)]

\* The values of loadingText.innerHTML: a fixed text, or "Loading: " with a
\* percentage.
NoPercent == [kind |-> "none", n |-> 0]

LoadingInitial == [text |-> "Loading 3D model...", percent |-> NoPercent]

LoadingProgress(loaded, total) ==
    [text |-> "Loading: %", percent |-> Percent(loaded, total)]

LoadingError == [text |-> "Error loading model", percent |-> NoPercent]

\* The session opened last (0 when none was opened).
cur == Len(sessions)

SessionIds == 1..Len(sessions)

\* The modal before openModelViewer first creates it.
NoModal == [exists |-> FALSE, display |-> "none", created |-> 0, closeHandlers |-> 0]

\* openModelViewer without its if (!modal) test: every call creates and
\* appends a modal element and registers a close handler.
ShownModalCreatedAnew(m) ==
    [exists |-> TRUE, display |-> "block", created |-> m.created + 1,
     closeHandlers |-> m.closeHandlers + 1]

\* openModelViewer, lines 155-173: create the modal once, register the close
\* handler once, show the modal.  created counts the modal elements made
\* with document.createElement and appended to the body, closeHandlers the
\* click listeners registered on .close-modal.
ShownModal(m) ==
    IF m.exists
    THEN [m EXCEPT !.display = "block"]
    ELSE [exists |-> TRUE, display |-> "block", created |-> 1, closeHandlers |-> 1]

\* The closure initThreeJsViewer creates: scene, camera, renderer, controls,
\* loading indicator and the decode it starts with loader.load.  modelUrl is
\* handed to the loader and not read again.  loadCalls counts the calls of
\* loader.load made for the session, inFlight those of them that have not
\* called back with success or error yet.
NewSession(size) ==
    [decode |-> "loading",
     loadCalls |-> 1,
     inFlight |-> 1,
     loadingText |-> LoadingInitial,
     sceneModel |-> FALSE,
     disposed |-> FALSE,
     viewport |-> size]

\* initThreeJsViewer(modelUrl): empty the container, append the new canvas
\* and loading indicator, start the decode, start the render loop, register
\* the resize listener.
initThreeJsViewer(modelUrl, m) ==
    /\ container' = {Canvas(cur + 1), LoadingText(cur + 1)}
    /\ sessions' = Append(sessions, NewSession(ClientSize(m)))
    /\ frameTokens' = frameTokens \cup {cur + 1}
    /\ resizeListeners' = resizeListeners \cup {cur + 1}

\* Click on a "View 3D Model" button.
openModelViewer(modelPath) ==
    /\ cur < MaxSessions
    /\ modal' = ShownModal(modal)
    /\ initThreeJsViewer(<<"data/", modelPath>>, ShownModal(modal))
    /\ lastOp' = Op("openModelViewer", cur + 1, FALSE)
    /\ UNCHANGED <<currentModel, searchVars, pageVars, loadVars>>

\* currentModel.dispose()
Dispose(ss, m) ==
    IF m = Null THEN ss ELSE [ss EXCEPT ![m[1]].disposed = TRUE]

\* closeModelViewer that disposes the model and keeps the reference to it.
closeModelViewerKeepsReference ==
    /\ modal.closeHandlers > 0
    /\ modal' = [modal EXCEPT !.display = "none"]
    /\ sessions' = Dispose(sessions, currentModel)
    /\ lastOp' = Op("closeModelViewer", cur, FALSE)
    /\ UNCHANGED <<currentModel, container, frameTokens, resizeListeners, searchVars, pageVars, loadVars>>

\* Click on the close button of the modal.
closeModelViewer ==
    /\ modal.closeHandlers > 0
    /\ modal' = [modal EXCEPT !.display = "none"]
    /\ sessions' = Dispose(sessions, currentModel)
    /\ currentModel' = Null
    /\ lastOp' = Op("closeModelViewer", cur, FALSE)
    /\ UNCHANGED <<container, frameTokens, resizeListeners, searchVars, pageVars, loadVars>>

\* The success callback of loader.load for session s.  container.removeChild
\* throws when the loading indicator is not a child of the container, and the
\* statements after it do not run.
LoadSuccess(s) ==
    /\ sessions[s].decode = "loading"
    /\ IF LoadingText(s) \in container
       THEN /\ container' = container \ {LoadingText(s)}
            /\ sessions' = [sessions EXCEPT ![s].sceneModel = TRUE,
                                            ![s].decode = "ready",
                                            ![s].inFlight = @ - 1]
            /\ currentModel' = Some(s)
            /\ lastOp' = Op("success", s, FALSE)
       ELSE /\ sessions' = [sessions EXCEPT ![s].decode = "aborted",
                                            ![s].inFlight = @ - 1]
            /\ lastOp' = Op("success", s, TRUE)
            /\ UNCHANGED <<container, currentModel>>
    /\ UNCHANGED <<modal, frameTokens, resizeListeners, searchVars, pageVars, loadVars>>

\* A progress callback that writes to the loading indicator found in the
\* container instead of the one its own closure created.
LoadProgressSharedIndicator(s, loaded, total) ==
    /\ sessions[s].decode = "loading"
    /\ sessions' = [t \in SessionIds |->
                       IF LoadingText(t) \in container
                       THEN [sessions[t] EXCEPT !.loadingText = LoadingProgress(loaded, total)]
                       ELSE sessions[t]]
    /\ lastOp' = Op("progress", s, FALSE)
    /\ UNCHANGED <<currentModel, modal, container, frameTokens, resizeListeners,
                   searchVars, pageVars, loadVars>>

\* The progress callback of loader.load for session s.
LoadProgress(s, loaded, total) ==
    /\ sessions[s].decode = "loading"
    /\ sessions' = [sessions EXCEPT ![s].loadingText = LoadingProgress(loaded, total)]
    /\ lastOp' = Op("progress", s, FALSE)
    /\ UNCHANGED <<currentModel, modal, container, frameTokens, resizeListeners,
                   searchVars, pageVars, loadVars>>

\* An error callback that shows the error text and, once, calls loader.load
\* again for the same session.
LoadErrorRetries(s) ==
    /\ sessions[s].decode = "loading"
    /\ sessions' = [sessions EXCEPT
                       ![s].loadingText = LoadingError,
                       ![s].decode = IF sessions[s].loadCalls < 2 THEN "loading" ELSE "failed",
                       ![s].loadCalls = IF @ < 2 THEN @ + 1 ELSE @,
                       ![s].inFlight = IF sessions[s].loadCalls < 2 THEN @ ELSE @ - 1]
    /\ lastOp' = Op("error", s, FALSE)
    /\ UNCHANGED <<currentModel, modal, container, frameTokens, resizeListeners,
                   searchVars, pageVars, loadVars>>

\* The error callback of loader.load for session s.
LoadError(s) ==
    /\ sessions[s].decode = "loading"
    /\ sessions' = [sessions EXCEPT ![s].loadingText = LoadingError,
                                    ![s].decode = "failed",
                                    ![s].inFlight = @ - 1]
    /\ lastOp' = Op("error", s, FALSE)
    /\ UNCHANGED <<currentModel, modal, container, frameTokens, resizeListeners,
                   searchVars, pageVars, loadVars>>

\* A frame that renders and does not ask for the next frame.
animateOnce(s) ==
    /\ s \in frameTokens
    /\ frameTokens' = frameTokens \ {s}
    /\ lastOp' = Op("animate", s, FALSE)
    /\ UNCHANGED <<currentModel, modal, container, sessions, resizeListeners,
                   searchVars, pageVars, loadVars>>

\* One display frame of session s: animate() asks for the next frame first,
\* then updates the controls and renders the scene.
animate(s) ==
    /\ s \in frameTokens
    /\ frameTokens' = (frameTokens \ {s}) \cup {s}
    /\ lastOp' = Op("animate", s, FALSE)
    /\ UNCHANGED <<currentModel, modal, container, sessions, resizeListeners,
                   searchVars, pageVars, loadVars>>

\* A 'resize' event of window: every registered listener sets its camera
\* aspect and renderer size from the container's client size.
WindowResize ==
    /\ sessions' = [s \in SessionIds |->
                       IF s \in resizeListeners
                       THEN [sessions[s] EXCEPT !.viewport = ClientSize(modal)]
                       ELSE sessions[s]]
    /\ lastOp' = Op("resize", 0, FALSE)
    /\ UNCHANGED <<currentModel, modal, container, frameTokens, resizeListeners,
                   searchVars, pageVars, loadVars>>

\* ------------------------------------------------------------------------
\* Rendering of results (colorMap, displayResults, getFilePreview, escapeHtml)
\* ------------------------------------------------------------------------
MaxBodyLen == 3

\* The string fileContents gets for a text record whose fetch failed.
ErrorText ==
    <<"E", "r", "r", "o", "r", " ", "l", "o", "a", "d", "i", "n", "g", " ",
      "f", "i", "l", "e", " ", "c", "o", "n", "t", "e", "n", "t">>

\* The string getFilePreview shows in place of a missing body.
LoadingSentinel == <<"L", "o", "a", "d", "i", "n", "g", ".", ".", ".">>

\* The entities escapeHtml writes.
AmpEntity == <<"&", "a", "m", "p", ";">>

LtEntity == <<"&", "l", "t", ";">>

GtEntity == <<"&", "g", "t", ";">>

QuotEntity == <<"&", "q", "u", "o", "t", ";">>

AposEntity == <<"&", "#", "0", "3", "9", ";">>

\* String.prototype.replace(/c/g, entity): every occurrence of the character
\* c replaced, left to right, the replacement text not scanned again.
RECURSIVE ReplaceAll(_, _, _)
ReplaceAll(s, c, entity) ==
    IF Len(s) = 0 THEN <<>>
    ELSE (IF s[1] = c THEN entity ELSE <<s[1]>>) \o ReplaceAll(Tail(s), c, entity)

\* The five replacements with the one of & made last.
escapeHtmlAmpersandLast(unsafe) ==
    ReplaceAll(
        ReplaceAll(
            ReplaceAll(
                ReplaceAll(
                    ReplaceAll(unsafe, "<", LtEntity),
                    ">", GtEntity),
                "\"", QuotEntity),
            "'", AposEntity),
        "&", AmpEntity)

\* escapeHtml: the five replacements in the order of the code, each applied
\* to the result of the one before.
escapeHtml(unsafe) ==
    ReplaceAll(
        ReplaceAll(
            ReplaceAll(
                ReplaceAll(
                    ReplaceAll(unsafe, "&", AmpEntity),
                    "<", LtEntity),
                ">", GtEntity),
            "\"", QuotEntity),
        "'", AposEntity)

\* The names of colorMap.
ColorNames ==
    {"red", "green", "blue", "black", "white", "yellow", "purple", "orange",
     "brown", "pink", "gray", "unknown"}

\* colorMap[name] for a name of the table.
colorMap(name) ==
    CASE name = "red" -> "#FF0000"
      [] name = "green" -> "#008000"
      [] name = "blue" -> "#0000FF"
      [] name = "black" -> "#000000"
      [] name = "white" -> "#FFFFFF"
      [] name = "yellow" -> "#FFFF00"
      [] name = "purple" -> "#800080"
      [] name = "orange" -> "#FFA500"
      [] name = "brown" -> "#A52A2A"
      [] name = "pink" -> "#FFC0CB"
      [] name = "gray" -> "#808080"
      [] OTHER -> "#CCCCCC"

\* let fileContents = {}: a function from the paths that have an entry to
\* their bodies.
EmptyCache == [p \in {} |-> <<>>]

\* An assignment that replaces the whole object by one holding the entry.
PutAlone(cache, path, body) == [p \in {path} |-> body]

\* fileContents[path] = body
Put(cache, path, body) ==
    [p \in DOMAIN cache \cup {path} |-> IF p = path THEN body ELSE cache[p]]

\* fileContents[result.path] || '': nothing is shown for a missing entry.
PreviewContentBlank(path, cache) ==
    IF path \in DOMAIN cache /\ cache[path] # <<>>
    THEN cache[path]
    ELSE <<>>

\* fileContents[result.path] || 'Loading...': a missing entry is undefined,
\* and undefined and the empty string are falsy.
PreviewContent(path, cache) ==
    IF path \in DOMAIN cache /\ cache[path] # <<>>
    THEN cache[path]
    ELSE LoadingSentinel

\* getFilePreview(result): the element it returns, with the URL of its image
\* or the markup of its text.  The records of the model carry no thumbnail.
getFilePreview(result, cache) ==
    CASE result.type = "image" ->
            [el |-> "img", src |-> <<"data/", result.path>>, html |-> <<>>]
      [] result.type = "text" ->
            [el |-> "text-content", src |-> <<>>,
             html |-> escapeHtml(PreviewContent(result.path, cache))]
      [] result.type = "3d" ->
            [el |-> "model-placeholder", src |-> <<>>, html |-> <<>>]
      [] OTHER ->
            [el |-> "", src |-> <<>>, html |-> <<>>]

\* The color indicator of a card: none unless the record is an image, else
\* the background color of the dot and the name beside it.
ColorIndicator(result) ==
    IF result.type = "image"
    THEN <<[dot |-> IF result.color \in ColorNames
                    THEN colorMap(result.color)
                    ELSE result.color,
            name |-> result.color]>>
    ELSE <<>>

\* One result-item of displayResults: preview, type, path, color indicator,
\* tags with confidence, and the "View 3D Model" button with its click
\* listener.
Card(result, cache) ==
    [preview |-> getFilePreview(result, cache),
     type |-> result.type,
     path |-> result.path,
     color |-> ColorIndicator(result),
     tags |-> [i \in 1..Len(result.tags) |->
                  <<result.tags[i].tag, result.tags[i].confidence>>],
     viewButton |-> result.type = "3d"]

\* The #results element before the first displayResults: no inline display
\* value, no cards.
NoResultsYet == [display |-> "", cards |-> <<>>]

\* A displayResults that returns on an empty result without hiding #results.
displayResultsLeavesShown(res, cache, old) ==
    IF Len(res) = 0
    THEN old
    ELSE [display |-> "grid",
          cards |-> [k \in 1..Len(res) |-> Card(res[k], cache)]]

\* displayResults(results): an empty result hides the element and returns,
\* leaving its cards; any other result shows it and replaces the cards.
displayResults(res, cache, old) ==
    IF Len(res) = 0
    THEN [old EXCEPT !.display = "none"]
    ELSE [display |-> "grid",
          cards |-> [k \in 1..Len(res) |-> Card(res[k], cache)]]

\* An input listener whose search lower-cases the tags of the corpus in
\* place before it matches.
InputEventLowersCorpus(v) ==
    /\ searchInput' = v
    /\ query' = trim(v)
    /\ results' = searchFiles(fileData, trim(v))
    /\ resultsContainer' =
          displayResults(searchFiles(fileData, trim(v)), fileContents, resultsContainer)
    /\ lastOp' = Op("input", 0, FALSE)
    /\ fileData' =
          IF fileData = Null
          THEN fileData
          ELSE Some([files |->
                  [i \in 1..Len(fileData[1].files) |->
                      <<fileData[1].files[i][1],
                        [type |-> fileData[1].files[i][2].type,
                         tags |-> [j \in 1..Len(fileData[1].files[i][2].tags) |->
                                     [tag |-> toLowerCase(fileData[1].files[i][2].tags[j].tag),
                                      confidence |-> fileData[1].files[i][2].tags[j].confidence]],
                         color |-> fileData[1].files[i][2].color]>>]])
    /\ UNCHANGED <<viewerVars, loadVars>>

\* The 'input' listener of #searchInput, the element holding the value v.
InputEvent(v) ==
    /\ searchInput' = v
    /\ query' = trim(v)
    /\ results' = searchFiles(fileData, trim(v))
    /\ resultsContainer' =
          displayResults(searchFiles(fileData, trim(v)), fileContents, resultsContainer)
    /\ lastOp' = Op("input", 0, FALSE)
    /\ UNCHANGED <<fileData, viewerVars, loadVars>>

\* ------------------------------------------------------------------------
\* Loading of the corpus and the text bodies (loadData, loadTextContents)
\* ------------------------------------------------------------------------
MaxLoadFiles == 4

\* loadData() is suspended at one of its awaits or has returned:
\*   "fetchTags"  await fetch('data/tags.json')
\*   "parseTags"  await response.json()
\*   "fetchText"  await fetch('data/' + path) for record i of the corpus
\*   "readText"   await response.text() for record i of the corpus
\*   "done"       loadData has returned
\* logged tells that the catch of loadData wrote its console.error, uncaught
\* that an error left loadData uncaught.
Suspended(pc, i) == [pc |-> pc, i |-> i, logged |-> FALSE, uncaught |-> FALSE]

Returned_loadData(logged) ==
    [pc |-> "done", i |-> 0, logged |-> logged, uncaught |-> FALSE]

TagsUrl == <<"data/", "tags.json">>

TextUrl(path) == <<"data/", path>>

\* A loop that takes the last record of type text after record i.
NextTextFromEnd(files, i) ==
    IF \E j \in (i + 1)..Len(files) : files[j][2].type = "text"
    THEN CHOOSE j \in (i + 1)..Len(files) :
            /\ files[j][2].type = "text"
            /\ \A k \in (j + 1)..Len(files) : files[k][2].type # "text"
    ELSE 0

\* The for loop of loadTextContents after record i (0: at its start): the
\* index of the next record of type text, 0 when there is none.
NextText(files, i) ==
    IF \E j \in (i + 1)..Len(files) : files[j][2].type = "text"
    THEN CHOOSE j \in (i + 1)..Len(files) :
            /\ files[j][2].type = "text"
            /\ \A k \in (i + 1)..(j - 1) : files[k][2].type # "text"
    ELSE 0

\* loadData after record i of the loop is dealt with: suspended at the fetch
\* of the next text record, or returned.
Resume(files, i) ==
    IF NextText(files, i) = 0
    THEN Returned_loadData(FALSE)
    ELSE Suspended("fetchText", NextText(files, i))

\* The fetch calls after the loop went on from record i.
Requested(files, i, log) ==
    IF NextText(files, i) = 0
    THEN log
    ELSE Append(log, TextUrl(files[NextText(files, i)][1]))

\* The record whose body loadData is waiting for.
LoadingPath == fileData[1].files[loading.i][1]

\* loadData without its try: the rejection leaves loadData uncaught.
FetchTagsRejectedUncaught ==
    /\ loading.pc = "fetchTags"
    /\ loading' = [pc |-> "done", i |-> 0, logged |-> FALSE, uncaught |-> TRUE]
    /\ lastOp' = Op("fetchTagsRejected", 0, FALSE)
    /\ UNCHANGED <<searchVars, viewerVars, pageVars, fileContents, fetchLog>>

\* fetch('data/tags.json') rejects: the catch of loadData logs the error.
FetchTagsRejected ==
    /\ loading.pc = "fetchTags"
    /\ loading' = Returned_loadData(TRUE)
    /\ lastOp' = Op("fetchTagsRejected", 0, FALSE)
    /\ UNCHANGED <<searchVars, viewerVars, pageVars, fileContents, fetchLog>>

\* fetch('data/tags.json') resolves with a response, whatever its status.
FetchTagsResolved ==
    /\ loading.pc = "fetchTags"
    /\ loading' = Suspended("parseTags", 0)
    /\ lastOp' = Op("fetchTagsResolved", 0, FALSE)
    /\ UNCHANGED <<searchVars, viewerVars, pageVars, fileContents, fetchLog>>

\* response.json() rejects: the body is not JSON.  fileData is not assigned.
ParseTagsRejected ==
    /\ loading.pc = "parseTags"
    /\ loading' = Returned_loadData(TRUE)
    /\ lastOp' = Op("parseTagsRejected", 0, FALSE)
    /\ UNCHANGED <<searchVars, viewerVars, pageVars, fileContents, fetchLog>>

\* response.json() resolves with the corpus: fileData is assigned and
\* loadTextContents runs to its first fetch.
ParseTagsResolved(corpus) ==
    /\ loading.pc = "parseTags"
    /\ fileData' = Some(corpus)
    /\ loading' = Resume(corpus.files, 0)
    /\ fetchLog' = Requested(corpus.files, 0, fetchLog)
    /\ lastOp' = Op("parseTagsResolved", 0, FALSE)
    /\ UNCHANGED <<query, results, viewerVars, pageVars, fileContents>>

\* A catch of loadTextContents that logs the error and stores nothing.
TextFailedLogsOnly ==
    /\ loading' = Resume(fileData[1].files, loading.i)
    /\ fetchLog' = Requested(fileData[1].files, loading.i, fetchLog)
    /\ UNCHANGED <<fileContents, searchVars, viewerVars, pageVars>>

\* loadTextContents without its try: the error ends the loop and reaches the
\* catch of loadData.
TextFailedEndsLoad ==
    /\ loading' = Returned_loadData(TRUE)
    /\ UNCHANGED <<fileContents, fetchLog, searchVars, viewerVars, pageVars>>

\* The catch of loadTextContents: the error string becomes the entry of the
\* path, and the loop goes on.
TextFailed ==
    /\ fileContents' = Put(fileContents, LoadingPath, ErrorText)
    /\ loading' = Resume(fileData[1].files, loading.i)
    /\ fetchLog' = Requested(fileData[1].files, loading.i, fetchLog)
    /\ UNCHANGED <<searchVars, viewerVars, pageVars>>

\* fetch('data/' + path) rejects.
FetchTextRejected ==
    /\ loading.pc = "fetchText"
    /\ lastOp' = Op("fetchTextRejected", loading.i, FALSE)
    /\ TextFailed

\* fetch('data/' + path) resolves with a response, whatever its status.
FetchTextResolved ==
    /\ loading.pc = "fetchText"
    /\ loading' = [loading EXCEPT !.pc = "readText"]
    /\ lastOp' = Op("fetchTextResolved", loading.i, FALSE)
    /\ UNCHANGED <<searchVars, viewerVars, pageVars, fileContents, fetchLog>>

\* response.text() rejects.
ReadTextRejected ==
    /\ loading.pc = "readText"
    /\ lastOp' = Op("readTextRejected", loading.i, FALSE)
    /\ TextFailed

\* response.text() resolves with the body, which becomes the entry of the
\* path, and the loop goes on.
ReadTextResolved(body) ==
    /\ loading.pc = "readText"
    /\ fileContents' = Put(fileContents, LoadingPath, body)
    /\ loading' = Resume(fileData[1].files, loading.i)
    /\ fetchLog' = Requested(fileData[1].files, loading.i, fetchLog)
    /\ lastOp' = Op("readTextResolved", loading.i, FALSE)
    /\ UNCHANGED <<searchVars, viewerVars, pageVars>>

\* The records of the corpora that are loaded, in corpus order, each with
\* one tag.
LoadPaths == <<"a.txt", "b.png", "d.txt", "c.glb", "e.txt">>

LoadTags == << <<"a">>, <<"b">>, <<"a", "b">>, <<"A">>, <<"b">> >>

LoadCorpus(n) ==
    [files |->
        [i \in 1..n |-> <<LoadPaths[i], FileRecord(LoadPaths[i], <<LoadTags[i]>>)>>]]

LoadCorpora == { LoadCorpus(n) : n \in 0..MaxLoadFiles }

\* The bodies the text files of the loaded corpora have: a text, an empty
\* file, a text with markup.
LoadBodies == { <<"a">>, <<>>, <<"<", "a", ">">> }

\* The values typed into #searchInput while the corpus loads.
LoadInputs == { <<"a">>, <<" ", "b">>, <<>> }

\* The bodies a rendered text file has: every text of at most MaxBodyLen
\* characters over the five characters escapeHtml replaces and a letter.
BodyAlphabet == {"&", "<", ">", "\"", "'", "a"}

Bodies == SeqUpTo(BodyAlphabet, MaxBodyLen)

\* The values typed into #searchInput when previews are rendered.
PreviewInputs == { <<"a">>, <<"b">>, <<>> }

\* The color names the image record of the previewed corpus carries: the
\* names of colorMap and a CSS color name colorMap has no key for.
PreviewColors == ColorNames \cup {"teal"}

\* The corpus with the color of every image record set to the given name.
WithColor(corpus, name) ==
    [files |->
        [i \in 1..Len(corpus.files) |->
            IF corpus.files[i][2].type = "image"
            THEN <<corpus.files[i][1], [corpus.files[i][2] EXCEPT !.color = name]>>
            ELSE corpus.files[i]]]

\* ------------------------------------------------------------------------
\* Specifications
\* ------------------------------------------------------------------------
ViewerInit ==
    /\ currentModel = Null
    /\ modal = NoModal
    /\ container = {}
    /\ sessions = <<>>
    /\ frameTokens = {}
    /\ resizeListeners = {}

\* The page after the script has run: nothing typed, nothing displayed.
PageInit ==
    /\ searchInput = <<>>
    /\ resultsContainer = NoResultsYet

\* loadData() has been called and waits for data/tags.json.
LoadInit ==
    /\ fileContents = EmptyCache
    /\ loading = Suspended("fetchTags", 0)
    /\ fetchLog = <<TagsUrl>>

\* The corpus has just been parsed: fileData is assigned and the first text
\* body is being fetched.
LoadParsed(corpus) ==
    /\ fileContents = EmptyCache
    /\ loading = Resume(corpus.files, 0)
    /\ fetchLog = Requested(corpus.files, 0, <<TagsUrl>>)

\* A call searchFiles(q), one per behaviour: the function reads fileData and
\* its argument only.
SearchFilesCall(q) ==
    /\ lastOp.op = "init"
    /\ query' = q
    /\ results' = searchFiles(fileData, q)
    /\ lastOp' = Op("searchFiles", 0, FALSE)
    /\ UNCHANGED <<fileData, viewerVars, pageVars, loadVars>>

\* searchFiles as a function of the corpus and the query: every corpus of the
\* bounded set (and the unloaded corpus), every query of the bounded set.
InitSearch ==
    /\ fileData \in {Null} \cup {Some(c) : c \in Corpora}
    /\ query = <<>>
    /\ results = <<>>
    /\ lastOp = Op("init", 0, FALSE)
    /\ ViewerInit
    /\ PageInit
    /\ IF fileData = Null THEN LoadInit ELSE LoadParsed(fileData[1])

NextSearch == \E q \in Queries : SearchFilesCall(q)

SpecSearch == InitSearch /\ [][NextSearch]_vars

\* The viewer: open and close requests, decode callbacks, display frames and
\* window resizes in any order.
InitViewer ==
    /\ fileData = Null
    /\ query = <<>>
    /\ results = <<>>
    /\ lastOp = Op("init", 0, FALSE)
    /\ ViewerInit
    /\ PageInit
    /\ LoadInit

NextViewer ==
    \/ \E p \in ModelPaths : openModelViewer(p)
    \/ closeModelViewer
    \/ \E s \in SessionIds : LoadSuccess(s)
    \/ \E s \in SessionIds : \E total \in 0..MaxBytes :
           \E loaded \in 0..(IF total = 0 THEN MaxBytes ELSE total) :
               LoadProgress(s, loaded, total)
    \/ \E s \in SessionIds : LoadError(s)
    \/ \E s \in SessionIds : animate(s)
    \/ WindowResize

SpecViewer == InitViewer /\ [][NextViewer]_vars

\* The page from the call of loadData() on: the steps of the load as the
\* network answers, and input events at any moment between them.
InitLoad ==
    /\ fileData = Null
    /\ query = <<>>
    /\ results = <<>>
    /\ lastOp = Op("init", 0, FALSE)
    /\ ViewerInit
    /\ PageInit
    /\ LoadInit

LoadStep ==
    \/ FetchTagsRejected
    \/ FetchTagsResolved
    \/ ParseTagsRejected
    \/ \E c \in LoadCorpora : ParseTagsResolved(c)
    \/ FetchTextRejected
    \/ FetchTextResolved
    \/ ReadTextRejected
    \/ \E b \in LoadBodies : ReadTextResolved(b)

NextLoad ==
    \/ LoadStep
    \/ \E v \in LoadInputs : InputEvent(v)

SpecLoad == InitLoad /\ [][NextLoad]_vars

\* Rendering as a function of the body of a text record: the corpus is
\* parsed, and the body of its first text record is pending, or has arrived
\* with any of the enumerated bodies, or could not be fetched.
InitPreview ==
    /\ query = <<>>
    /\ results = <<>>
    /\ lastOp = Op("init", 0, FALSE)
    /\ ViewerInit
    /\ PageInit
    /\ \/ /\ fileData \in { Some(WithColor(LoadCorpus(MaxLoadFiles), c)) :
                              c \in PreviewColors }
          /\ LoadParsed(fileData[1])
       \/ /\ fileData = Some(LoadCorpus(MaxLoadFiles))
          /\ fileContents \in
                { Put(EmptyCache, fileData[1].files[1][1], b) :
                    b \in Bodies \cup {ErrorText} }
          /\ loading = Resume(fileData[1].files, 1)
          /\ fetchLog = Requested(fileData[1].files, 1,
                                  Requested(fileData[1].files, 0, <<TagsUrl>>))

NextPreview == \E v \in PreviewInputs : InputEvent(v)

SpecPreview == InitPreview /\ [][NextPreview]_vars

\* Every fetch, json() and text() promise is settled in the end, and the
\* event loop then runs the continuation of loadData.
SpecLoadFair == SpecLoad /\ WF_vars(LoadStep)

\* A click on the "View 3D Model" button of card k on display: the listener
\* reads data-path and calls openModelViewer with it.
ViewButtonClick(k) ==
    /\ resultsContainer.display = "grid"
    /\ k \in 1..Len(resultsContainer.cards)
    /\ resultsContainer.cards[k].viewButton
    /\ openModelViewer(resultsContainer.cards[k].path)

\* The whole page: the load, input events, clicks on the buttons of the
\* cards on display and on the close button of the modal.
NextPage ==
    \/ NextLoad
    \/ \E k \in 1..MaxLoadFiles : ViewButtonClick(k)
    \/ closeModelViewer

SpecPage == InitLoad /\ [][NextPage]_vars

\* ------------------------------------------------------------------------
\* Notions the properties are stated in
\* ------------------------------------------------------------------------

\* The whitespace-delimited terms of s: its maximal runs of characters that
\* are not whitespace.
Terms(s) ==
    { SubSeq(s, i, j) : <<i, j>> \in
        { ij \in (1..Len(s)) \X (1..Len(s)) :
            /\ ij[1] <= ij[2]
            /\ \A k \in ij[1]..ij[2] : s[k] \notin WhiteSpace
            /\ (ij[1] = 1 \/ s[ij[1] - 1] \in WhiteSpace)
            /\ (ij[2] = Len(s) \/ s[ij[2] + 1] \in WhiteSpace) } }

\* A term matches a record: some single tag's lower-cased text contains it,
\* or the lower-cased tag texts joined by single spaces contain it.
TermMatchesRecord(file, term) ==
    \/ \E i \in 1..Len(file.tags) : includes(toLowerCase(file.tags[i].tag), term)
    \/ includes(join([i \in 1..Len(file.tags) |-> toLowerCase(file.tags[i].tag)]), term)

EveryTermMatches(file, q) ==
    \A term \in Terms(toLowerCase(q)) : TermMatchesRecord(file, term)

Returned(path) == \E k \in 1..Len(results) : results[k].path = path

ResultPaths == [k \in 1..Len(results) |-> results[k].path]

OnlyWhiteSpace(s) == \A i \in 1..Len(s) : s[i] \in WhiteSpace

Searched == lastOp.op = "searchFiles"

\* The queries of the concrete scenario.
QueryCat == <<"c", "a", "t">>

QueryDogBlue == <<"d", "o", "g", " ", "b", "l", "u", "e">>

QueryCatDog == <<"c", "a", "t", " ", "d", "o", "g">>

\* Session s no longer is the session on display: a newer session replaced it
\* or the modal was closed.
Stale(s) == s # cur \/ modal.display = "none"

\* What the container shows of loading indicators: each indicator in the
\* container with its text.
DisplayedIndicators ==
    { [sid |-> s, text |-> sessions[s].loadingText] :
        s \in {t \in SessionIds : LoadingText(t) \in container} }

\* Session s holds nothing and renders nothing: no frame is scheduled for it,
\* currentModel is not its model, and a model it attached is disposed and
\* detached from its scene.
TornDown(s) ==
    /\ s \notin frameTokens
    /\ currentModel # Some(s)
    /\ ~sessions[s].sceneModel
    /\ (sessions[s].decode = "ready" => sessions[s].disposed)

\* The letters of s in lower case, every other character kept.
LowerForm(s) ==
    [i \in 1..Len(s) |->
        IF s[i] \in UpperLetters
        THEN LowerCase[CHOOSE k \in 1..26 : UpperCase[k] = s[i]]
        ELSE s[i]]

\* s and t differ in letter case at most.
DiffersOnlyInCase(s, t) == LowerForm(s) = LowerForm(t)

\* The corpus with every tag text replaced by F(tag text).
RetaggedCorpus(corpus, F(_)) ==
    [files |->
        [n \in 1..Len(corpus.files) |->
            <<corpus.files[n][1],
              [corpus.files[n][2] EXCEPT
                  !.tags = [i \in 1..Len(@) |-> [@[i] EXCEPT !.tag = F(@)]]]>>]]

\* The paths of a result sequence, in order.
PathsOf(res) == [k \in 1..Len(res) |-> res[k].path]

\* s is one term: not empty and free of whitespace.
SingleTerm(s) == s # <<>> /\ \A i \in 1..Len(s) : s[i] \notin WhiteSpace

\* The set of paths a search returns.
PathSet(res) == { res[k].path : k \in 1..Len(res) }

\* A tag satisfies a term: its text, in lower case, contains the term.
TagSatisfies(tagObj, term) == includes(LowerForm(tagObj.tag), term)

\* The corpus with the tags of record n that satisfy the term removed.
WithoutTagsSatisfying(corpus, n, term) ==
    [files |->
        [corpus.files EXCEPT
            ![n] = <<@[1],
                     [@[2] EXCEPT
                         !.tags = SelectSeq(@, LAMBDA t : ~TagSatisfies(t, term))]>>]]

\* The query holds two or more different terms.
MultiTerm(q) ==
    /\ \E i \in 1..Len(q) : q[i] \in WhiteSpace
    /\ Cardinality(Terms(LowerForm(q))) >= 2

\* The result set of the query is the intersection of the result sets of its
\* terms.
IsIntersectionOfTerms ==
    LET ofTerm == [term \in Terms(LowerForm(query)) |->
                      PathSet(searchFiles(fileData, term))]
    IN  PathSet(results) =
            { fileData[1].files[n][1] : n \in
                { m \in 1..Len(fileData[1].files) :
                    \A term \in DOMAIN ofTerm : fileData[1].files[m][1] \in ofTerm[term] } }

\* The number of fetch calls made with the URL.
FetchCount(url) == Cardinality({ k \in 1..Len(fetchLog) : fetchLog[k] = url })

\* loadData has returned with the whole corpus loaded: no error reached its
\* catch, and every record of type text has been fetched once and has an
\* entry in fileContents.
LoadComplete ==
    /\ fileData # Null
    /\ loading.pc = "done"
    /\ ~loading.logged
    /\ \A n \in 1..Len(fileData[1].files) :
          fileData[1].files[n][2].type = "text" =>
              /\ fileData[1].files[n][1] \in DOMAIN fileContents
              /\ FetchCount(TextUrl(fileData[1].files[n][1])) = 1

\* The entity of a character escapeHtml replaces, the character otherwise.
EntityOf(c) ==
    CASE c = "&" -> AmpEntity
      [] c = "<" -> LtEntity
      [] c = ">" -> GtEntity
      [] c = "\"" -> QuotEntity
      [] c = "'" -> AposEntity
      [] OTHER -> <<c>>

\* The text with each character replaced by its entity, once.
RECURSIVE EscapedByCharacter(_)
EscapedByCharacter(s) ==
    IF Len(s) = 0 THEN <<>>
    ELSE EntityOf(s[1]) \o EscapedByCharacter(Tail(s))

\* Every & of the markup starts one of the five entities.
AmpersandsStartEntities(html) ==
    \A i \in 1..Len(html) :
        html[i] = "&" =>
            \E e \in {AmpEntity, LtEntity, GtEntity, QuotEntity, AposEntity} :
                /\ i + Len(e) - 1 <= Len(html)
                /\ SubSeq(html, i, i + Len(e) - 1) = e

\* ------------------------------------------------------------------------
\* Properties
\* ------------------------------------------------------------------------

\* C1 (as stated): for every corpus and every query, searchFiles returns a
\* record if and only if every whitespace-delimited term of the lower-cased
\* query matches it.
C1_ReturnedIffEveryTermMatches ==
    (Searched /\ fileData # Null) =>
        \A n \in 1..Len(fileData[1].files) :
            Returned(fileData[1].files[n][1])
                <=> EveryTermMatches(fileData[1].files[n][2], query)

\* C1 (amended): for every corpus and every query holding at least one
\* character that is not whitespace, searchFiles returns a record if and only
\* if every whitespace-delimited term of the lower-cased query matches it;
\* for the empty query it returns nothing.
C1_ReturnedIffEveryTermMatchesNonBlank ==
    (Searched /\ fileData # Null) =>
        /\ ~OnlyWhiteSpace(query) =>
              \A n \in 1..Len(fileData[1].files) :
                  Returned(fileData[1].files[n][1])
                      <=> EveryTermMatches(fileData[1].files[n][2], query)
        /\ query = <<>> => results = <<>>

\* A two-term query over a two-record corpus returned one record and not the
\* other.
C1_Witness ==
    /\ Searched
    /\ fileData # Null
    /\ Len(fileData[1].files) = 2
    /\ Cardinality(Terms(toLowerCase(query))) = 2
    /\ Len(results) = 1

\* C2 (as stated): on the scenario corpus, "cat" returns [a.txt], "dog blue"
\* returns [b.png], "cat dog" returns nothing and the empty query returns
\* nothing.
C2_ScenarioAsStated ==
    (Searched /\ fileData = Some(ScenarioCorpus)) =>
        /\ query = QueryCat => ResultPaths = <<"a.txt">>
        /\ query = QueryDogBlue => ResultPaths = <<"b.png">>
        /\ query = QueryCatDog => ResultPaths = <<>>
        /\ query = <<>> => ResultPaths = <<>>

\* C2 (amended): on the scenario corpus, "cat" returns [a.txt], "dog blue"
\* returns nothing (a color is not a tag), "dog" returns [b.png], "cat dog"
\* returns nothing and the empty query returns nothing.
C2_Scenario ==
    (Searched /\ fileData = Some(ScenarioCorpus)) =>
        /\ query = QueryCat => ResultPaths = <<"a.txt">>
        /\ query = QueryDogBlue => ResultPaths = <<>>
        /\ query = <<"d", "o", "g">> => ResultPaths = <<"b.png">>
        /\ query = QueryCatDog => ResultPaths = <<>>
        /\ query = <<>> => ResultPaths = <<>>

\* "dog blue" was searched on the scenario corpus and returned nothing.
C2_Witness ==
    /\ Searched
    /\ fileData = Some(ScenarioCorpus)
    /\ query = QueryDogBlue
    /\ results = <<>>

\* C3: searchFiles returns the empty sequence for every query that is empty
\* or only whitespace, and for every query while the corpus is unloaded or
\* empty.
C3_BlankQueryOrNoCorpusReturnsNothing ==
    (Searched /\ (\/ OnlyWhiteSpace(query)
                  \/ fileData = Null
                  \/ (fileData # Null /\ fileData[1].files = <<>>))) =>
        results = <<>>

\* C4: at no time are frame callbacks of two sessions pending.
C4_AtMostOneRenderLoop == Cardinality(frameTokens) <= 1

\* C5: every session replaced by a newer one was torn down first: its render
\* loop stopped, its model root disposed, detached and no longer owned.
C5_ReplacedSessionTornDown ==
    \A s \in SessionIds : s < cur => TornDown(s)

\* C6: after closeModelViewer ran on a Loading or Ready session, no frame is
\* scheduled for the session and its resize listener is detached.
C6_CloseStopsLoopAndResize ==
    (lastOp.op = "closeModelViewer" /\ sessions[cur].decode \in {"loading", "ready"}) =>
        /\ cur \notin frameTokens
        /\ cur \notin resizeListeners

\* C7: after closeModelViewer ran, no model root is owned (currentModel is
\* null), and the model root of a Ready session has been disposed.
C7_CloseReleasesModel ==
    lastOp.op = "closeModelViewer" =>
        /\ currentModel = Null
        /\ sessions[cur].decode = "ready" => sessions[cur].disposed

\* closeModelViewer ran on a Ready session.
C7_Witness ==
    /\ lastOp.op = "closeModelViewer"
    /\ sessions[cur].decode = "ready"
    /\ sessions[cur].disposed
    /\ currentModel = Null

\* C8: a decode callback arriving for a closed or replaced session does not
\* throw and attaches and owns nothing.
C8_StaleCallbackIsNoOp ==
    (lastOp.op \in {"success", "progress", "error"} /\ Stale(lastOp.sid)) =>
        /\ ~lastOp.threw
        /\ currentModel # Some(lastOp.sid)
        /\ ~sessions[lastOp.sid].sceneModel

\* C9: every progress callback writes only to the loading indicator of its
\* own session; the indicator of a replaced session is not in the container,
\* so a progress callback of a replaced session leaves what the container
\* shows of the current session's progress unchanged.
C9_StaleProgressKeepsDisplay ==
    [][lastOp'.op = "progress" =>
          /\ \A t \in SessionIds : t # lastOp'.sid => sessions'[t] = sessions[t]
          /\ lastOp'.sid # cur =>
                /\ LoadingText(lastOp'.sid) \notin container
                /\ DisplayedIndicators' = DisplayedIndicators]_vars

\* A progress callback of a replaced session ran while the current session
\* shows its initial loading text.
C9_Witness ==
    /\ lastOp.op = "progress"
    /\ lastOp.sid < cur
    /\ sessions[lastOp.sid].loadingText.text = "Loading: %"
    /\ LoadingText(cur) \in container
    /\ sessions[cur].loadingText = LoadingInitial

\* C10: a session whose decode failed has no model attached or owned and no
\* frame scheduled.
C10_FailedSessionNotRendering ==
    \A s \in SessionIds :
        sessions[s].decode = "failed" =>
            /\ s \notin frameTokens
            /\ ~sessions[s].sceneModel
            /\ currentModel # Some(s)

\* The loader.load calls made so far, over all sessions.
RECURSIVE SumLoadCalls(_)
SumLoadCalls(ss) ==
    IF Len(ss) = 0 THEN 0 ELSE ss[1].loadCalls + SumLoadCalls(Tail(ss))

\* C11: every session has issued exactly one decode request, at most one
\* decode request of it is in flight, a session whose decode failed issues
\* no further request, and the only step that issues a decode request is the
\* user's selection of a model (openModelViewer), which issues one.
C11_OneDecodePerSession ==
    [][/\ \A s \in SessionIds' :
            /\ sessions'[s].loadCalls = 1
            /\ sessions'[s].inFlight \in {0, 1}
            /\ sessions'[s].decode = "failed" => sessions'[s].inFlight = 0
       /\ \A s \in SessionIds :
            sessions[s].decode = "failed" =>
                /\ sessions'[s].decode = "failed"
                /\ sessions'[s].loadCalls = sessions[s].loadCalls
       /\ SumLoadCalls(sessions') =
              SumLoadCalls(sessions) + (IF lastOp'.op = "openModelViewer" THEN 1 ELSE 0)
      ]_vars

\* The decode of a session failed and the user selected a model again: the
\* failed session still has made one request, the new session has its one
\* request in flight.
C11_Witness ==
    /\ cur = 2
    /\ sessions[1].decode = "failed"
    /\ sessions[1].loadCalls = 1
    /\ sessions[1].inFlight = 0
    /\ sessions[2].decode = "loading"
    /\ sessions[2].inFlight = 1
    /\ lastOp.op = "openModelViewer"

\* a < b for two displayed percentages, as numbers compare: NaN is below
\* nothing and nothing is below NaN, Infinity is above every number.
PercentBelow(a, b) ==
    \/ a.kind = "number" /\ b.kind = "number" /\ a.n < b.n
    \/ a.kind = "number" /\ b.kind = "Infinity"

\* C12: whenever a progress callback runs for a session that already displays
\* a percentage, the percentage it displays afterwards is not below the one
\* displayed before, whatever loaded and total the decoder reports.
C12_ProgressNeverDecreases ==
    [][(/\ lastOp'.op = "progress"
        /\ sessions[lastOp'.sid].loadingText.text = "Loading: %") =>
           ~PercentBelow(sessions'[lastOp'.sid].loadingText.percent,
                         sessions[lastOp'.sid].loadingText.percent)]_vars

\* C13: every query returns the result sequence its lower-case form returns
\* (two queries that differ only in letter case have the same lower-case
\* form, so they return identical sequences), and every corpus returns the
\* records, in the order, that the corpus with its tag texts in lower case
\* returns (two corpora that differ only in the letter case of tag texts
\* have the same lower-case corpus).
C13_CaseInsensitive ==
    (Searched /\ fileData # Null) =>
        /\ LowerForm(query) # query =>
              searchFiles(fileData, LowerForm(query)) = results
        /\ LET lowered == RetaggedCorpus(fileData[1], LowerForm)
           IN  lowered # fileData[1] =>
                   PathsOf(searchFiles(Some(lowered), query)) = ResultPaths

\* A query with an upper-case letter returned a record whose matching tag
\* is written in lower case.
C13_Witness ==
    /\ Searched
    /\ query = <<"A">>
    /\ fileData # Null
    /\ Len(fileData[1].files) = 1
    /\ fileData[1].files[1][2].tags = <<TagEntry(<<"a">>)>>
    /\ ResultPaths = <<"a.txt">>

\* C14: a query that is one term returns every record carrying a tag whose
\* whole text differs from the query in letter case at most.
C14_WholeTagQueryReturnsRecord ==
    (Searched /\ fileData # Null /\ SingleTerm(query)) =>
        \A n \in 1..Len(fileData[1].files) :
            (\E i \in 1..Len(fileData[1].files[n][2].tags) :
                DiffersOnlyInCase(fileData[1].files[n][2].tags[i].tag, query))
            => Returned(fileData[1].files[n][1])

\* The query "ab" returned the second record, whose second tag is "ab".
C14_Witness ==
    /\ Searched
    /\ query = <<"a", "b">>
    /\ fileData # Null
    /\ Len(fileData[1].files) = 2
    /\ Len(fileData[1].files[2][2].tags) = 2
    /\ fileData[1].files[2][2].tags[2].tag = <<"a", "b">>
    /\ Returned("b.png")

\* C15: the result sequence is the corpus sequence restricted to the
\* returned records: corpus order, each record once, each result carrying
\* its corpus key as path beside the record's fields.
C15_ResultsInCorpusOrder ==
    (Searched /\ fileData # Null) =>
        LET kept == SelectSeq(fileData[1].files, LAMBDA e : Returned(e[1]))
        IN  results = [k \in 1..Len(kept) |-> Result(kept[k])]

\* Both records of a two-record corpus were returned.
C15_Witness ==
    /\ Searched
    /\ fileData # Null
    /\ Len(fileData[1].files) = 2
    /\ ResultPaths = <<"a.txt", "b.png">>

\* C16 (as stated): the result set of a query of two or more terms is the
\* intersection of the result sets of its terms; and for a record returned
\* by a query of two terms, the record without its tags that satisfy one of
\* the terms is not returned by the query and is returned by the other term
\* alone.
C16_ConjunctiveAsStated ==
    (Searched /\ fileData # Null /\ MultiTerm(query)) =>
        /\ IsIntersectionOfTerms
        /\ Cardinality(Terms(LowerForm(query))) = 2 =>
              \A n \in 1..Len(fileData[1].files) :
                  Returned(fileData[1].files[n][1]) =>
                      \A t \in Terms(LowerForm(query)) :
                          \A u \in Terms(LowerForm(query)) \ {t} :
                              LET less == Some(WithoutTagsSatisfying(fileData[1], n, t))
                                  path == fileData[1].files[n][1]
                              IN  /\ path \notin PathSet(searchFiles(less, query))
                                  /\ path \in PathSet(searchFiles(less, u))

\* C16 (amended): the result set of a query of two or more terms is the
\* intersection of the result sets of its terms; and for a record returned
\* by a query of two terms, the record without its tags that satisfy one of
\* the terms is not returned by the query, and is returned by the other term
\* alone exactly when one of its remaining tags satisfies that other term.
C16_Conjunctive ==
    (Searched /\ fileData # Null /\ MultiTerm(query)) =>
        /\ IsIntersectionOfTerms
        /\ Cardinality(Terms(LowerForm(query))) = 2 =>
              \A n \in 1..Len(fileData[1].files) :
                  Returned(fileData[1].files[n][1]) =>
                      \A t \in Terms(LowerForm(query)) :
                          \A u \in Terms(LowerForm(query)) \ {t} :
                              LET less == Some(WithoutTagsSatisfying(fileData[1], n, t))
                                  path == fileData[1].files[n][1]
                                  tags == fileData[1].files[n][2].tags
                              IN  /\ path \notin PathSet(searchFiles(less, query))
                                  /\ path \in PathSet(searchFiles(less, u))
                                        <=> \E i \in 1..Len(tags) :
                                               /\ ~TagSatisfies(tags[i], t)
                                               /\ TagSatisfies(tags[i], u)

\* The query "a b" returned the first of two records and not the second,
\* and the first record carries the tags "a" and "b".
C16_Witness ==
    /\ Searched
    /\ query = <<"a", " ", "b">>
    /\ fileData # Null
    /\ Len(fileData[1].files) = 2
    /\ fileData[1].files[1][2].tags = <<TagEntry(<<"a">>), TagEntry(<<"b">>)>>
    /\ ResultPaths = <<"a.txt">>

\* C17: when fetch or json() of the corpus document rejects, loadData
\* returns with the error logged and nothing uncaught, fileData is null; and
\* from then on fileData stays null, loadData stays returned, and every
\* input event gets the empty sequence from searchFiles and shows no card.
C17_FailedCorpusLoadLeavesSearchEmpty ==
    [][/\ lastOp'.op \in {"fetchTagsRejected", "parseTagsRejected"} =>
            /\ loading'.pc = "done"
            /\ loading'.logged
            /\ ~loading'.uncaught
            /\ fileData' = Null
       /\ (loading.pc = "done" /\ fileData = Null) =>
            /\ fileData' = Null
            /\ loading' = loading
            /\ lastOp'.op = "input" =>
                  /\ results' = <<>>
                  /\ resultsContainer'.cards = <<>>
      ]_vars

\* The corpus document could not be loaded, and "a" was typed afterwards.
C17_Witness ==
    /\ fileData = Null
    /\ loading.pc = "done"
    /\ loading.logged
    /\ lastOp.op = "input"
    /\ query = <<"a">>
    /\ results = <<>>

\* C18: when fetch or text() of a text record rejects, fileContents has the
\* error string at the record's path; an input event (query and rendering)
\* calls fetch for nothing; and a path whose entry is the error string has
\* been fetched once and keeps an entry, whatever step follows.
C18_FailedTextFetchCachesErrorString ==
    [][/\ lastOp'.op \in {"fetchTextRejected", "readTextRejected"} =>
            /\ fileData[1].files[lastOp'.sid][1] \in DOMAIN fileContents'
            /\ fileContents'[fileData[1].files[lastOp'.sid][1]] = ErrorText
       /\ lastOp'.op = "input" => fetchLog' = fetchLog
       /\ \A p \in DOMAIN fileContents :
            fileContents[p] = ErrorText =>
                /\ p \in DOMAIN fileContents'
                /\ FetchCount(TextUrl(p))' = 1
      ]_vars

\* The body of a.txt could not be fetched, and a later input event rendered
\* the record with the error string.
C18_Witness ==
    /\ lastOp.op = "input"
    /\ "a.txt" \in DOMAIN fileContents
    /\ fileContents["a.txt"] = ErrorText
    /\ resultsContainer.display = "grid"
    /\ resultsContainer.cards[1].path = "a.txt"
    /\ resultsContainer.cards[1].preview.html = ErrorText
    /\ FetchCount(TextUrl("a.txt")) = 1

\* C19: once the corpus is parsed it stays assigned, and, whichever text
\* fetches fail, loadData returns in the end with every record of type text
\* fetched once and holding an entry in fileContents.
C19_LoadEndsWithEveryTextCached ==
    /\ [][fileData # Null => fileData' = fileData]_vars
    /\ [](fileData # Null => <>LoadComplete)
    /\ []((\E p \in DOMAIN fileContents : fileContents[p] = ErrorText) => <>LoadComplete)

\* The fetch of a.txt failed, the body of d.txt arrived, the load has ended,
\* and a query typed afterwards returned records.
C19_Witness ==
    /\ LoadComplete
    /\ DOMAIN fileContents = {"a.txt", "d.txt"}
    /\ fileContents["a.txt"] = ErrorText
    /\ fileContents["d.txt"] = <<"a">>
    /\ lastOp.op = "input"
    /\ ResultPaths = <<"a.txt", "d.txt">>

\* C20: the markup of every text preview is the previewed text with each of
\* & < > " ' replaced by its entity once and every other character kept; it
\* holds none of < > " ' and each & in it starts an entity.
C20_TextPreviewEscaped ==
    \A k \in 1..Len(resultsContainer.cards) :
        resultsContainer.cards[k].type = "text" =>
            LET html == resultsContainer.cards[k].preview.html
                text == PreviewContent(resultsContainer.cards[k].path, fileContents)
            IN  /\ html = EscapedByCharacter(text)
                /\ \A i \in 1..Len(html) : html[i] \notin {"<", ">", "\"", "'"}
                /\ AmpersandsStartEntities(html)

\* The body <&' of a.txt was rendered as &lt;&amp;&#039;
C20_Witness ==
    /\ lastOp.op = "input"
    /\ "a.txt" \in DOMAIN fileContents
    /\ fileContents["a.txt"] = <<"<", "&", "'">>
    /\ resultsContainer.display = "grid"
    /\ resultsContainer.cards[1].preview.html = LtEntity \o AmpEntity \o AposEntity

\* C21: the preview of every text record on display is the escaped entry
\* of fileContents for the record's path when the path has an entry, and
\* the text "Loading..." exactly when the path has no entry.
C21_PreviewBodyOrSentinel ==
    \A k \in 1..Len(resultsContainer.cards) :
        resultsContainer.cards[k].type = "text" =>
            LET html == resultsContainer.cards[k].preview.html
                path == resultsContainer.cards[k].path
            IN  /\ path \in DOMAIN fileContents =>
                      html = EscapedByCharacter(fileContents[path])
                /\ html = LoadingSentinel <=> path \notin DOMAIN fileContents

\* The card of the text record at path is on display with the text
\* "Loading...".
ShowsSentinel(path) ==
    /\ resultsContainer.display = "grid"
    /\ \E k \in 1..Len(resultsContainer.cards) :
           /\ resultsContainer.cards[k].path = path
           /\ resultsContainer.cards[k].type = "text"
           /\ resultsContainer.cards[k].preview.html = LoadingSentinel

\* The fetch of path has completed with a non-empty entry (a body or the
\* error string) while its card on display still reads "Loading...".
SentinelOutlivesFetch(path) ==
    /\ ShowsSentinel(path)
    /\ path \in DOMAIN fileContents
    /\ fileContents[path] # <<>>

\* C22: whenever the fetch of a text record completes while its card is on
\* display with "Loading...", the card later shows the loaded body or the
\* error string, with no further input event needed.
C22_CompletedFetchRerendersCard ==
    \A p \in {"a.txt", "d.txt", "e.txt"} :
        SentinelOutlivesFetch(p) ~> ~ShowsSentinel(p)

\* C23: the dot of every image card on display is the hex value of colorMap
\* when the record's color name is a key of colorMap, and a neutral gray
\* (#CCCCCC or #808080) for every other color name.
C23_SwatchHexOrGray ==
    \A k \in 1..Len(resultsContainer.cards) :
        resultsContainer.cards[k].type = "image" =>
            LET dot == resultsContainer.cards[k].color[1].dot
                name == resultsContainer.cards[k].color[1].name
            IN  /\ name \in ColorNames => dot = colorMap(name)
                /\ name \notin ColorNames => dot \in {"#CCCCCC", "#808080"}

\* The steps of loadTextContents that end the wait for one text body.
TextCompletions == {"fetchTextRejected", "readTextRejected", "readTextResolved"}

\* C24: every step (input event with its search and render, viewer open and
\* close, load step) keeps every entry fileContents has; fileContents
\* changes only in a step that completes the fetch of a text record, and that
\* step writes the entry of the record it waited for and leaves every other
\* entry as it was.
C24_TextCacheAppendOnly ==
    [][/\ \A p \in DOMAIN fileContents :
              /\ p \in DOMAIN fileContents'
              /\ fileContents'[p] = fileContents[p]
       /\ fileContents' # fileContents => lastOp'.op \in TextCompletions
       /\ lastOp'.op \in TextCompletions =>
              /\ DOMAIN fileContents' = DOMAIN fileContents \cup {LoadingPath}
              /\ \A p \in DOMAIN fileContents \ {LoadingPath} :
                     fileContents'[p] = fileContents[p]]_vars

\* The viewer was opened from a card and closed while d.txt was loading;
\* then the body of d.txt arrived and joined the error entry of a.txt.
C24_Witness ==
    /\ lastOp.op = "readTextResolved"
    /\ lastOp.sid = 3
    /\ DOMAIN fileContents = {"a.txt", "d.txt"}
    /\ fileContents["a.txt"] = ErrorText
    /\ fileContents["d.txt"] = <<"a">>
    /\ modal.exists
    /\ modal.display = "none"
    /\ resultsContainer.display = "grid"

\* C25: fileData is assigned once, by the step that parses the corpus
\* document; once assigned, no step (input event with its search and render,
\* text-fetch completion, viewer open or close) changes it: the same records
\* in the same order with the same paths, types, tags and colors.
C25_CorpusAssignedOnceThenReadOnly ==
    [][/\ fileData # Null => fileData' = fileData
       /\ fileData' # fileData => lastOp'.op = "parseTagsResolved"]_vars

\* The corpus of four records is as it was parsed after a query returned
\* records, the viewer was opened and closed, and the load has ended.
C25_Witness ==
    /\ fileData = Some(LoadCorpus(4))
    /\ LoadComplete
    /\ lastOp.op = "closeModelViewer"
    /\ results # <<>>
    /\ DOMAIN fileContents = {"a.txt", "d.txt"}

\* The cards a user sees: those of #results unless it is hidden.
VisibleCards ==
    IF resultsContainer.display = "none" THEN <<>> ELSE resultsContainer.cards

\* C26: after every input event the visible cards are, in order, the records
\* searchFiles returns for the trimmed value of #searchInput on the corpus
\* (same path, type and tags), whatever was typed before; when searchFiles
\* returns nothing, no card is visible.
C26_VisibleCardsAreCurrentResults ==
    lastOp.op = "input" =>
        LET expected == searchFiles(fileData, trim(searchInput))
        IN  /\ Len(VisibleCards) = Len(expected)
            /\ \A k \in 1..Len(expected) :
                   /\ VisibleCards[k].path = expected[k].path
                   /\ VisibleCards[k].type = expected[k].type
                   /\ VisibleCards[k].tags =
                          [i \in 1..Len(expected[k].tags) |->
                              <<expected[k].tags[i].tag, expected[k].tags[i].confidence>>]
            /\ expected = <<>> => VisibleCards = <<>>

\* An earlier query filled #results with three cards; the input was then
\* cleared, the result is empty, and the cards are hidden.
C26_Witness ==
    /\ lastOp.op = "input"
    /\ fileData # Null
    /\ searchInput = <<>>
    /\ results = <<>>
    /\ Len(resultsContainer.cards) = 3
    /\ resultsContainer.display = "none"

\* C27: every executed frame of a session leaves a frame callback of the
\* session pending, and every session that is loading or ready has a frame
\* callback pending from the start of its render loop on.
C27_RenderLoopKeepsRunning ==
    /\ [][lastOp'.op = "animate" => lastOp'.sid \in frameTokens']_vars
    /\ [](\A s \in SessionIds :
              sessions[s].decode \in {"loading", "ready"} => s \in frameTokens)

\* A frame of the open session ran after its model was decoded, and the next
\* frame is pending.
C27_Witness ==
    /\ lastOp.op = "animate"
    /\ lastOp.sid = cur
    /\ sessions[cur].decode = "ready"
    /\ modal.display = "block"
    /\ cur \in frameTokens

\* A matcher that tests each term against each single tag only.
RECURSIVE CollectByTag(_, _)
CollectByTag(entries, searchTerms) ==
    IF Len(entries) = 0 THEN <<>>
    ELSE LET tags == entries[1][2].tags
             tagText == [i \in 1..Len(tags) |-> toLowerCase(tags[i].tag)]
         IN  (IF \A k \in 1..Len(searchTerms) :
                    \E i \in 1..Len(tags) : includes(tagText[i], searchTerms[k])
              THEN <<Result(entries[1])>>
              ELSE <<>>)
             \o CollectByTag(Tail(entries), searchTerms)

\* C28: for every corpus and query, searchFiles returns the sequence a
\* matcher returns that tests each term against each single tag only; a
\* record without tags is returned by neither.
C28_JoinedTagsClauseChangesNothing ==
    (Searched /\ fileData # Null /\ query # <<>>) =>
        /\ results = CollectByTag(fileData[1].files, split(toLowerCase(query)))
        /\ \A k \in 1..Len(results) : results[k].tags # <<>>

\* The query "a b" on a corpus whose first record has the tags "a" and "b"
\* and whose second record has no tag: the joined text "a b" contains both
\* terms, and so do the single tags.
C28_Witness ==
    /\ Searched
    /\ fileData # Null
    /\ Len(fileData[1].files) = 2
    /\ fileData[1].files[1][2].tags = <<TagEntry(<<"a">>), TagEntry(<<"b">>)>>
    /\ fileData[1].files[2][2].tags = <<>>
    /\ query = <<"a", " ", "b">>
    /\ ResultPaths = <<"a.txt">>

\* The corpus document is parsed and loadData is still waiting for a text
\* body.
LoadingTexts == fileData # Null /\ loading.pc \in {"fetchText", "readText"}

\* C29: a query typed after the corpus document is parsed and before the
\* text bodies have all arrived returns every record all of whose terms
\* match and no other record, and every text card on display whose path has
\* no entry in fileContents yet reads "Loading...".
C29_SearchableBeforeBodiesArrive ==
    (lastOp.op = "input" /\ LoadingTexts) =>
        /\ query # <<>> =>
              \A n \in 1..Len(fileData[1].files) :
                  Returned(fileData[1].files[n][1])
                      <=> EveryTermMatches(fileData[1].files[n][2], query)
        /\ \A k \in 1..Len(VisibleCards) :
               (VisibleCards[k].type = "text"
                   /\ VisibleCards[k].path \notin DOMAIN fileContents) =>
                   VisibleCards[k].preview.html = LoadingSentinel

\* "a" was typed while the body of a.txt was being fetched: a.txt, d.txt and
\* c.glb are returned, and both text cards read "Loading...".
C29_Witness ==
    /\ lastOp.op = "input"
    /\ LoadingTexts
    /\ LoadingPath = "a.txt"
    /\ fileContents = EmptyCache
    /\ ResultPaths = <<"a.txt", "d.txt", "c.glb">>
    /\ resultsContainer.display = "grid"
    /\ resultsContainer.cards[1].preview.html = LoadingSentinel
    /\ resultsContainer.cards[2].preview.html = LoadingSentinel

\* The indices of the records of type text, and the URLs of the first n
\* of the records of type text in corpus order.
TextIndices == { n \in 1..Len(fileData[1].files) : fileData[1].files[n][2].type = "text" }

TextUrlsUpTo(n) ==
    LET texts == SelectSeq(SubSeq(fileData[1].files, 1, n),
                           LAMBDA e : e[2].type = "text")
    IN  [k \in 1..Len(texts) |-> TextUrl(texts[k][1])]

\* C30: the text bodies are fetched one after another in corpus order: the
\* fetches made are those of a prefix of the text records, in order; at most
\* one of them has no entry in fileContents yet; and a record has an entry
\* only if every text record before it in the corpus has one.
C30_TextBodiesFetchedInOrder ==
    fileData # Null =>
        /\ \E n \in 0..Len(fileData[1].files) :
               fetchLog = <<TagsUrl>> \o TextUrlsUpTo(n)
        /\ Len(fetchLog) - 1 - Cardinality(DOMAIN fileContents) \in {0, 1}
        /\ \A k \in TextIndices :
               fileData[1].files[k][1] \in DOMAIN fileContents =>
                   \A j \in TextIndices :
                       j < k => fileData[1].files[j][1] \in DOMAIN fileContents

\* The entry of a.txt is written, the body of d.txt (after the image b.png)
\* is being read, and no other fetch was made.
C30_Witness ==
    /\ fileData # Null
    /\ Len(fileData[1].files) = 4
    /\ loading.pc = "readText"
    /\ loading.i = 3
    /\ DOMAIN fileContents = {"a.txt"}
    /\ fetchLog = <<TagsUrl, TextUrl("a.txt"), TextUrl("d.txt")>>

\* C31: across every sequence of open and close requests at most one modal
\* element is created, exactly one close handler is registered once it
\* exists, and an open request that finds the modal only sets its display to
\* "block"; a close request only sets it to "none".
C31_ModalCreatedOnce ==
    /\ [](/\ modal.created <= 1
          /\ modal.exists <=> modal.created = 1
          /\ modal.exists => modal.closeHandlers = 1
          /\ ~modal.exists => modal.closeHandlers = 0
          /\ sessions # <<>> => modal.exists)
    /\ [][modal.exists =>
             /\ lastOp'.op = "openModelViewer" =>
                    modal' = [modal EXCEPT !.display = "block"]
             /\ lastOp'.op = "closeModelViewer" =>
                    modal' = [modal EXCEPT !.display = "none"]
             /\ modal'.created = modal.created
             /\ modal'.closeHandlers = modal.closeHandlers]_vars

\* The viewer was opened, its model decoded, the viewer closed and opened
\* again: the second open shows the one modal with its one close handler.
C31_Witness ==
    /\ lastOp.op = "openModelViewer"
    /\ lastOp.sid = 2
    /\ sessions[1].decode = "ready"
    /\ sessions[1].disposed
    /\ modal = [exists |-> TRUE, display |-> "block", created |-> 1, closeHandlers |-> 1]

====
